---- MODULE Spec2Model ----
\* Observation processing pipeline of src/Combined.py (Learning Observer):
\* the Streamlit script main() and the adapters of ObservationExtractor.
\*
\* A Python string is a finite sequence of pieces; a piece is one character
\* or one literal of the source (f"Error uploading audio: {body}" is the
\* piece "Error uploading audio: " followed by the pieces of body).
\* One script run of main() is a sequence of steps, one step per call to an
\* external service; pc names the call the run is about to make.
EXTENDS Integers, Sequences, FiniteSets, TLC

\* ---------------------------------------------------------------- bounds
\* Largest number of status polls of one transcription that is explored.
MaxPolls == 4

\* ---------------------------------------------------------------- values
\* Python None, kept a sequence so that it compares with every string.
None == <<"<None>">>

Hello == <<"H", "e", "l", "l", "o", " ", "w", "o", "r", "l", "d">>

\* Texts a recognition service may report.
Texts == {<<>>, <<" ", "\n">>, Hello}

\* Failure details reported by a service (response body, exception text).
Details == {<<"d", "1">>, <<"d", "2">>}

\* Bodies the narrative service may return.
Bodies == {<<"1", ".", " ", "D", "a", "y", "\n", "*", " ", "o", "k">>}

\* Values of the sidebar's "Student Name:" input.
Names == {<<>>, <<"R", "a", "v", "i">>}

Whitespace == {" ", "\t", "\n", "\r"}

\* str.strip()
RECURSIVE LStrip(_)
LStrip(s) ==
    IF s = <<>> THEN <<>>
    ELSE IF Head(s) \in Whitespace THEN LStrip(Tail(s)) ELSE s

RECURSIVE RStrip(_)
RStrip(s) ==
    IF s = <<>> THEN <<>>
    ELSE IF s[Len(s)] \in Whitespace THEN RStrip(SubSeq(s, 1, Len(s) - 1)) ELSE s

Strip(s) == RStrip(LStrip(s))

\* str.split('\n'): the pieces between the newlines, in order.
RECURSIVE SplitLines(_)
SplitLines(s) ==
    IF \A i \in 1..Len(s) : s[i] # "\n" THEN <<s>>
    ELSE LET i == CHOOSE k \in 1..Len(s) :
                      s[k] = "\n" /\ \A j \in 1..(k - 1) : s[j] # "\n"
         IN <<SubSeq(s, 1, i - 1)>> \o SplitLines(SubSeq(s, i + 1, Len(s)))

\* Truth value of a Python string or None: "if s:".
Truthy(s) == s # None /\ s # <<>>

\* dict.get(key, default)
Get(d, key, default) == IF key \in DOMAIN d THEN d[key] ELSE default

\* Outcome of a call: a returned value or a raised exception with its text.
Return(v) == [raised |-> FALSE, value |-> v]
Raise(e) == [raised |-> TRUE, value |-> e]

\* ------------------------------------------------- recognition (image)
\* Responses of the OCR endpoint: a transport or HTTP failure
\* (requests.post / raise_for_status raise), or a JSON body with a top-level
\* ErrorMessage and the list ParsedResults.
OcrResponses ==
    { [http_error |-> d, ErrorMessage |-> None, ParsedResults |-> <<>>] :
        d \in Details }
    \cup
    { [http_error |-> None, ErrorMessage |-> m, ParsedResults |-> <<>>] :
        m \in {None} \cup Details }
    \cup
    { [http_error |-> None, ErrorMessage |-> None,
       ParsedResults |-> <<[ErrorMessage |-> m, ParsedText |-> t]>>] :
        m \in {None} \cup Details, t \in Texts }

\* "if not extracted_text or not extracted_text.strip()"
NoTextDetectedMut(t) == ~Truthy(t)
NoTextDetected(t) == ~Truthy(t) \/ ~Truthy(Strip(t))

\* extract_text_with_ocr, the body of its try block.
extract_text_with_ocr(resp) ==
    IF resp.http_error # None THEN Raise(resp.http_error)
    ELSE IF Len(resp.ParsedResults) = 0
    THEN Raise(<<"OCR Error: ">> \o
               (IF resp.ErrorMessage # None THEN resp.ErrorMessage
                ELSE <<"No parsed results returned">>))
    ELSE LET parsed_result == resp.ParsedResults[1] IN
         IF Truthy(parsed_result.ErrorMessage)
         THEN Raise(<<"OCR Error: ">> \o parsed_result.ErrorMessage)
         ELSE IF NoTextDetected(parsed_result.ParsedText)
         THEN Raise(<<"No text was detected in the image">>)
         ELSE Return(parsed_result.ParsedText)

\* ------------------------------------------------------------ structuring
ExtractedNames == {<<"R", "a", "v", "i">>, <<"A", "n", "u">>}
StudentIds == {<<"7">>}

\* JSON objects the structuring service may reply with; a key the reply
\* lacks is outside the DOMAIN of the record.
StructuredReplies ==
    { [className |-> <<"c">>] }
    \cup
    { [observations |-> o, studentName |-> n] :
        o \in Texts, n \in ExtractedNames }
    \cup
    { [observations |-> Hello, studentName |-> n, studentId |-> i] :
        n \in ExtractedNames, i \in StudentIds }

NoData == [unset |-> TRUE]

\* Responses of the chat-completion endpoint: transport/HTTP failure, a
\* message content that is not JSON, or a JSON object.
GroqResponses ==
    { [http_error |-> d, json_error |-> None, content |-> NoData] :
        d \in Details }
    \cup
    { [http_error |-> None, json_error |-> d, content |-> NoData] :
        d \in Details }
    \cup
    { [http_error |-> None, json_error |-> None, content |-> c] :
        c \in StructuredReplies }

\* process_with_groq, the body of its try block.
process_with_groq(resp) ==
    IF resp.http_error # None THEN Raise(resp.http_error)
    ELSE IF resp.json_error # None THEN Raise(resp.json_error)
    ELSE Return(resp.content)

\* -------------------------------------------------------------- narrative
\* Outcomes of model.generate_content: a text or an exception.
NarrativeResponses ==
    { [error |-> None, text |-> b] : b \in Bodies }
    \cup
    { [error |-> d, text |-> None] : d \in Details }

\* The f-string of complete_report: header, service body, footer.
complete_report(report_content, info) ==
    <<"Date: ">> \o info.session_date \o <<"\n">> \o
    <<" ", " ", " ", " ", "Student Name: ">> \o info.student_name \o <<"\n">> \o
    <<" ", " ", " ", " ", "Observer Name: ">> \o info.observer_name \o <<"\n">> \o
    <<" ", " ", " ", " ", "Session Duration: ">> \o info.session_start \o
        <<" ", "-", " ">> \o info.session_end \o <<"\n", "\n">> \o
    <<" ", " ", " ", " ">> \o report_content \o <<"\n", "\n">> \o
    <<" ", " ", " ", " ", "Name of Observer: ">> \o info.observer_name \o
        <<"\n", " ", " ", " ", " ">>

NarrativeError(e) == <<"Error generating report: ">> \o e

\* generate_report_from_text: the except clause turns every failure of the
\* service into a returned text.
generate_report_from_textMut(text_content, info, resp) ==
    IF resp.error # None THEN Raise(resp.error)
    ELSE Return(complete_report(resp.text, info))
generate_report_from_text(text_content, info, resp) ==
    IF resp.error # None THEN Return(NarrativeError(resp.error))
    ELSE Return(complete_report(resp.text, info))

\* ------------------------------------------------- recognition (audio)
\* Job statuses of the transcription service; the last two are terminal.
JobStatuses == {"queued", "processing", "completed", "error"}

PercentDone == {0, 50}

\* Responses of the upload endpoint: an exception of requests.post, a
\* non-200 status with a body, or 200 with or without the key upload_url.
UploadResponses ==
    { [exception |-> d, status_code |-> 0, text |-> None, upload_url |-> None] :
        d \in Details }
    \cup
    { [exception |-> None, status_code |-> 500, text |-> d, upload_url |-> None] :
        d \in Details }
    \cup
    { [exception |-> None, status_code |-> 200, text |-> <<>>, upload_url |-> u] :
        u \in {None, <<"u", "r", "l">>} }

\* Responses of the transcript-create endpoint, likewise with the key id.
CreateResponses ==
    { [exception |-> d, status_code |-> 0, text |-> None, id |-> None] :
        d \in Details }
    \cup
    { [exception |-> None, status_code |-> 500, text |-> d, id |-> None] :
        d \in Details }
    \cup
    { [exception |-> None, status_code |-> 200, text |-> <<>>, id |-> i] :
        i \in {None, <<"j", "1">>} }

\* JSON bodies of a status poll of a job whose server-side status is js.
PollData(js) ==
    IF js = "completed"
    THEN { [status |-> js, text |-> t, percent_done |-> 100] : t \in Texts }
    ELSE IF js = "error"
    THEN { [status |-> js, error |-> d] : d \in Details } \cup { [status |-> js] }
    ELSE { [status |-> js, percent_done |-> p] : p \in PercentDone }

\* Responses of a status poll: exception, non-200 with a body, 200 with the
\* job's data, or 200 with a body that has no status key.
PollResponses(js) ==
    { [exception |-> d, status_code |-> 0, text |-> None, data |-> NoData] :
        d \in Details }
    \cup
    { [exception |-> None, status_code |-> 500, text |-> d, data |-> NoData] :
        d \in Details }
    \cup
    { [exception |-> None, status_code |-> 200, text |-> <<>>, data |-> pd] :
        pd \in PollData(js) \cup {NoData} }

\* A step of transcribe_with_assemblyai either returns from the function
\* (exit names the return statement taken) or goes on to the next call.
Exit(tag, v) == [done |-> TRUE, exit |-> tag, value |-> v]
GoOn == [done |-> FALSE, exit |-> "none", value |-> None]

KeyError(k) == <<"Error during transcription: ", "'", k, "'">>

\* "if upload_response.status_code != 200"
UploadFailedMut(resp) == FALSE
UploadFailed(resp) == resp.status_code # 200

\* Upload phase.
upload_step(resp) ==
    IF resp.exception # None
    THEN Exit("exception", <<"Error during transcription: ">> \o resp.exception)
    ELSE IF UploadFailed(resp)
    THEN Exit("upload", <<"Error uploading audio: ">> \o resp.text)
    ELSE IF resp.upload_url = None
    THEN Exit("exception", KeyError("upload_url"))
    ELSE GoOn

\* "if transcript_response.status_code != 200"
CreateFailed(resp) == resp.status_code # 200

\* Transcription phase.
create_step(resp) ==
    IF resp.exception # None
    THEN Exit("exception", <<"Error during transcription: ">> \o resp.exception)
    ELSE IF CreateFailed(resp)
    THEN Exit("create", <<"Error requesting transcription: ">> \o resp.text)
    ELSE IF resp.id = None
    THEN Exit("exception", KeyError("id"))
    ELSE GoOn

\* "status = polling_data['status']"
polled_statusMut(data, old) == old
polled_status(data, old) == data.status

\* "return polling_data['text']"
completed_resultMut(data) == <<data.status>>
completed_result(data) == data.text

\* "elif status == 'error'"
IsErrorStatusMut(st) == FALSE
IsErrorStatus(st) == st = "error"

\* "if polling_response.status_code != 200"
PollFailedMut(resp) == FALSE
PollFailed(resp) == resp.status_code # 200

\* One iteration of the poll loop up to its return statements; old is the
\* value of the local status before the poll.
poll_stepMut(resp, old) ==
    IF resp.exception # None
    THEN Exit("exception", <<"Error during transcription: ">> \o resp.exception)
    ELSE IF PollFailed(resp)
    THEN Exit("poll", <<"Error checking transcription status: ">> \o resp.text)
    ELSE IF "status" \notin DOMAIN resp.data
    THEN Exit("exception", KeyError("status"))
    ELSE IF Get(resp.data, "percent_done", 0) = 50
    THEN Exit("completed", <<>>)
    ELSE IF polled_status(resp.data, old) = "completed"
    THEN Exit("completed", completed_result(resp.data))
    ELSE IF IsErrorStatus(polled_status(resp.data, old))
    THEN Exit("error", <<"Transcription error: ">> \o
                       Get(resp.data, "error", <<"Unknown error">>))
    ELSE GoOn
poll_step(resp, old) ==
    IF resp.exception # None
    THEN Exit("exception", <<"Error during transcription: ">> \o resp.exception)
    ELSE IF PollFailed(resp)
    THEN Exit("poll", <<"Error checking transcription status: ">> \o resp.text)
    ELSE IF "status" \notin DOMAIN resp.data
    THEN Exit("exception", KeyError("status"))
    ELSE IF polled_status(resp.data, old) = "completed"
    THEN Exit("completed", completed_result(resp.data))
    ELSE IF IsErrorStatus(polled_status(resp.data, old))
    THEN Exit("error", <<"Transcription error: ">> \o
                       Get(resp.data, "error", <<"Unknown error">>))
    ELSE GoOn

TimedOut == <<"Error: Transcription timed out or failed.">>

\* ------------------------------------------------------ document renderer
\* Bound of the renderer's inputs: the number of lines of report_content.
MaxLines == 2

\* report_content.replace('**', ''): non-overlapping pairs, left to right.
RECURSIVE RemoveBold(_)
RemoveBold(s) ==
    IF Len(s) < 2 THEN s
    ELSE IF s[1] = "*" /\ s[2] = "*" THEN RemoveBold(SubSeq(s, 3, Len(s)))
    ELSE <<s[1]>> \o RemoveBold(Tail(s))

\* The literals of complete_report that begin with one of the five labels
\* of line.startswith((...)).
LabelsMut == {"Date: "}
Labels ==
    {"Date: ", "Student Name: ", "Observer Name: ", "Session Duration: ",
     "Name of Observer: "}

StartsWithLabel(line) == line # <<>> /\ line[1] \in Labels

Digits == {"0", "1", "2", "3", "4", "5", "6", "7", "8", "9"}

NoMatch == [matched |-> FALSE, group1 |-> <<>>, group2 |-> <<>>]

\* re.compile(r'^\d+\.\s+(.+)').match(line): digits 1..i, a period,
\* whitespace up to j, and at least one more character.
section_pattern(line) ==
    \E i, j \in 1..Len(line) :
        /\ \A k \in 1..i : line[k] \in Digits
        /\ i + 2 <= j
        /\ line[i + 1] = "."
        /\ \A k \in (i + 2)..j : line[k] \in Whitespace
        /\ j < Len(line)

\* The ways r'^\*\s*(.+):\*\s*(.+)' can match: a characters of whitespace
\* after the star, ":*" at k and k + 1, b characters of whitespace after it.
SubheadingSplits(line) ==
    { x \in (0..Len(line)) \X (1..Len(line)) \X (0..Len(line)) :
        /\ line[1] = "*"
        /\ \A i \in 2..(x[1] + 1) : i <= Len(line) /\ line[i] \in Whitespace
        /\ x[2] >= x[1] + 3
        /\ x[2] + 1 <= Len(line)
        /\ line[x[2]] = ":"
        /\ line[x[2] + 1] = "*"
        /\ \A i \in (x[2] + 2)..(x[2] + 1 + x[3]) :
               i <= Len(line) /\ line[i] \in Whitespace
        /\ x[2] + 2 + x[3] <= Len(line) }

\* Greedy quantifiers: the match found first takes the longest \s*, then the
\* longest group 1, then the longest second \s*.
Greedier(x, y) ==
    \/ x[1] > y[1]
    \/ x[1] = y[1] /\ x[2] > y[2]
    \/ x[1] = y[1] /\ x[2] = y[2] /\ x[3] >= y[3]

subheading_pattern(line) ==
    LET S == SubheadingSplits(line) IN
    IF S = {} THEN NoMatch
    ELSE LET m == CHOOSE x \in S : \A y \in S : Greedier(x, y) IN
         [matched |-> TRUE,
          group1 |-> SubSeq(line, m[1] + 2, m[2] - 1),
          group2 |-> SubSeq(line, m[2] + 2 + m[3], Len(line))]

\* re.compile(r'^\*\s+(.+)').match(line)
list_item_pattern(line) ==
    LET S == { a \in 1..Len(line) :
                 /\ line[1] = "*"
                 /\ \A i \in 2..(a + 1) : i <= Len(line) /\ line[i] \in Whitespace
                 /\ a + 2 <= Len(line) }
    IN IF S = {} THEN NoMatch
       ELSE LET a == CHOOSE x \in S : \A y \in S : x >= y IN
            [matched |-> TRUE, group1 |-> SubSeq(line, a + 2, Len(line)),
             group2 |-> <<>>]

\* A paragraph of the document: its style and its runs.
Run(text, bold) == [text |-> text, bold |-> bold]
Paragraph(style, runs) == [style |-> style, runs |-> runs]

\* doc.add_heading('The Observer Report', 0)
Title == Paragraph("Title", <<Run(<<"The Observer Report">>, FALSE)>>)

\* The if/elif chain of the loop body: the number of the branch taken.
ClassifyMut(line) ==
    IF StartsWithLabel(line) THEN 1
    ELSE IF section_pattern(line) THEN 2
    ELSE IF list_item_pattern(line).matched THEN 4
    ELSE IF subheading_pattern(line).matched THEN 3
    ELSE 5
Classify(line) ==
    IF StartsWithLabel(line) THEN 1
    ELSE IF section_pattern(line) THEN 2
    ELSE IF subheading_pattern(line).matched THEN 3
    ELSE IF list_item_pattern(line).matched THEN 4
    ELSE 5

\* What the branch taken adds to the document.
Emit(line) ==
    CASE Classify(line) = 1 -> Paragraph("Normal", <<Run(line, TRUE)>>)
      [] Classify(line) = 2 -> Paragraph("Heading 1", <<Run(line, FALSE)>>)
      [] Classify(line) = 3 ->
             Paragraph("Normal",
                       <<Run(subheading_pattern(line).group1 \o <<":", " ">>, TRUE),
                         Run(subheading_pattern(line).group2, FALSE)>>)
      [] Classify(line) = 4 ->
             Paragraph("List Bullet", <<Run(list_item_pattern(line).group1, FALSE)>>)
      [] OTHER -> Paragraph("Normal", <<Run(line, FALSE)>>)

\* "if not line: continue"
SkipLineMut(line) == FALSE
SkipLine(line) == ~Truthy(line)

\* "for line in lines": strip, skip or emit.
RECURSIVE AddLines(_, _)
AddLines(doc, lines) ==
    IF lines = <<>> THEN doc
    ELSE LET line == Strip(Head(lines)) IN
         AddLines(IF SkipLine(line) THEN doc ELSE Append(doc, Emit(line)),
                  Tail(lines))

\* create_word_document: the saved document, as its list of paragraphs.
create_word_document(report_content) ==
    Return(AddLines(<<Title>>, SplitLines(RemoveBold(report_content))))

\* Line shapes given to the renderer.
RenderLines ==
    { <<>>,
      <<" ">>,
      <<"*", "*">>,
      <<"Date: ", "x">>,
      <<"1", ".", " ", "a">>,
      <<"1", ".", "a">>,
      <<"*", " ", "a", ":", "*", " ", "b">>,
      <<"*", "a", ":", "*", "b">>,
      <<"*", " ", ":", "*", " ", "b">>,
      <<"*", " ", "a">>,
      <<" ", "*", " ", "*", "*", "a", ":", "*", "*", " ", "b">>,
      <<"a">> }

\* '\n'.join(lines)
RECURSIVE Join(_)
Join(lines) ==
    IF Len(lines) = 1 THEN lines[1]
    ELSE lines[1] \o <<"\n">> \o Join(Tail(lines))

\* The non-empty texts of at most MaxLines lines.
RenderInputs ==
    { Join(ls) : ls \in UNION { [1..n -> RenderLines] : n \in 1..MaxLines } }
        \ {<<>>}

NoDoc == [kind |-> "none"]

\* The session metadata of the reports given to the renderer.
ReportInfos ==
    { [student_name |-> n, observer_name |-> <<"O", "b", "s">>,
       session_date |-> <<"02/11/2026">>, session_start |-> <<"09:00">>,
       session_end |-> <<"09:00">>] : n \in Names }

\* What generate_report_from_text returns, the argument of the renderer in
\* main.
Reports ==
    { generate_report_from_text(Hello, info, resp).value :
        info \in ReportInfos, resp \in NarrativeResponses }

\* "doc = docx.Document()": a new, empty document, whatever the document of
\* the last call was.
DocumentMut(last) == last
Document(last) == <<>>

\* A call of create_word_document that follows a call that built last.
RenderCall(last, report_content) ==
    Return(Document(last) \o create_word_document(report_content).value)

\* ------------------------------------------------------------------ state
VARIABLES
    \* st.session_state
    auth, user_info, audio_transcription, report_generated,
    show_edit_transcript, processing_mode,
    \* module-level configuration
    assemblyai_key,
    \* position of the current script run ("idle": waiting for the user)
    pc,
    \* locals of main and of transcribe_with_assemblyai
    extracted_text, structured_data, child_id, transcript, status,
    \* server-side status of the transcription job
    job_status,
    \* what the current script run has done so far
    calls, waits, st_errors, inserted, docx_input, progress_bar,
    narrative_arg, responses, exit, stage,
    \* a call of create_word_document: its argument, position and result
    render_input, render_pc, docx_bytes, docx_previous,
    \* the extractor's fields, and two independent callers of
    \* transcribe_with_assemblyai: their frames, the cells holding the local
    \* "status", and what each call computes when it runs alone
    extractor, callers, cells, alone,
    \* the users table with the registration forms of two browser sessions,
    \* and the 'login' rows of observer_activity_logs of the current login
    users, registrations, login_logs,
    \* a call of send_email from the e-mail form: its position and
    \* arguments, the local "server" and its connection, what the try
    \* statement has pending when "finally" starts, what the call did and
    \* what the form showed
    send_pc, send_args, server, send_pending, send_outcome, st_shown

session == <<auth, user_info, audio_transcription, report_generated,
             show_edit_transcript, processing_mode>>
locals == <<extracted_text, structured_data, child_id, transcript, status>>
effects == <<calls, waits, st_errors, inserted, docx_input, progress_bar,
             narrative_arg, responses, exit, stage>>
renderer == <<render_input, render_pc, docx_bytes, docx_previous>>
concurrent == <<extractor, callers, cells, alone>>
database == <<users, registrations>>
mail == <<send_pc, send_args, server, send_pending, send_outcome, st_shown>>
vars == <<session, assemblyai_key, pc, locals, job_status, effects, renderer,
          concurrent, database, mail, login_logs>>

CallKinds == {"ocr", "groq", "upload", "create", "poll", "narrative",
              "lookup", "insert"}

ZeroCalls == [k \in CallKinds |-> 0]

Issue(k) == [calls EXCEPT ![k] = @ + 1]

NoRow == [none |-> TRUE]

\* What the services answered in the current script run: the status codes
\* of the upload and create calls (0: none received) and the upload body,
\* the JSON of the last poll, the number of polls answered 200 with a
\* non-terminal status, and the outcome of the narrative call.
NoResponses ==
    [upload |-> 0, upload_text |-> None, create |-> 0, poll |-> NoData,
     pending |-> 0, narrative |-> "none", ocr |-> NoData, poll_code |-> 0,
     poll_text |-> None]

\* How far the current script run got: the interaction that started it, the
\* outcome of recognition and of structuring, and whether report_generated
\* was assigned.
NoStage ==
    [run |-> "none", recognition |-> "none", structuring |-> "none",
     report_assigned |-> FALSE]

\* Rows of the users table that can log in, and the admin credentials.
Accounts ==
    { [role |-> "Observer", user_id |-> "u1", name |-> <<"O", "b", "s">>],
      [role |-> "Parent", user_id |-> "u2", name |-> <<"P", "a", "r">>],
      [role |-> "Admin", user_id |-> "admin", name |-> <<"Admin">>] }

Today == <<"02/11/2026">>
Clock == <<"09:00">>

\* The sidebar of the observer dashboard assigns every field of user_info
\* from its widgets on every script run.
Sidebar(info, a) ==
    [student_name |-> info.student_name,
     observer_name |-> IF Truthy(info.observer_name) THEN info.observer_name
                       ELSE Get(a, "name", <<>>),
     session_date |-> Today,
     session_start |-> Clock,
     session_end |-> Clock]

\* The observer dashboard is the part of main after the role dispatch.
OnDashboardMut == auth.logged_in
OnDashboard ==
    /\ auth.logged_in
    /\ auth.role \notin {"Admin", "Parent"}

\* Every script run starts with nothing done and fresh locals (st_errors,
\* the messages shown by st.error, is set by the starting action).
StartRun(kind) ==
    /\ extracted_text' = None
    /\ structured_data' = NoData
    /\ child_id' = None
    /\ transcript' = None
    /\ status' = "none"
    /\ job_status' = "none"
    /\ calls' = ZeroCalls
    /\ waits' = 0
    /\ inserted' = NoRow
    /\ docx_input' = None
    /\ progress_bar' = 0
    /\ narrative_arg' = None
    /\ responses' = NoResponses
    /\ exit' = "none"
    /\ stage' = [NoStage EXCEPT !.run = kind]

TypeOK ==
    /\ auth.logged_in \in BOOLEAN
    /\ processing_mode \in {"None", "ocr", "audio"}
    /\ show_edit_transcript \in BOOLEAN
    /\ assemblyai_key \in BOOLEAN
    /\ calls \in [CallKinds -> 0..(MaxPolls + 1)]
    /\ waits \in 0..MaxPolls
    /\ job_status \in JobStatuses \cup {"none"}

SessionInit ==
    /\ auth = [logged_in |-> FALSE, role |-> "None", user_id |-> "None",
               email |-> None, name |-> None]
    /\ user_info = [student_name |-> <<>>, observer_name |-> <<>>,
                    session_date |-> Today, session_start |-> <<>>,
                    session_end |-> <<>>]
    /\ audio_transcription = <<>>
    /\ report_generated = None
    /\ show_edit_transcript = FALSE
    /\ processing_mode = "None"
    /\ assemblyai_key \in BOOLEAN
    /\ pc = "idle"
    /\ extracted_text = None
    /\ structured_data = NoData
    /\ child_id = None
    /\ transcript = None
    /\ status = "none"
    /\ job_status = "none"
    /\ calls = ZeroCalls
    /\ waits = 0
    /\ st_errors = {}
    /\ inserted = NoRow
    /\ docx_input = None
    /\ progress_bar = 0
    /\ narrative_arg = None
    /\ responses = NoResponses
    /\ exit = "none"
    /\ stage = NoStage

\* ObservationExtractor.__init__: the three keys read from st.secrets.
Extractor ==
    [ocr_api_key |-> "OCR_API_KEY", groq_api_key |-> "GROQ_API_KEY",
     gemini_api_key |-> "GOOGLE_API_KEY"]

\* Two independent callers of the extractor, and the frame of a call of
\* transcribe_with_assemblyai: its position, the polls it has issued and
\* its return value.
Callers == {1, 2}
Frame(at, polls, result) == [pc |-> at, polls |-> polls, result |-> result]
NoResult == [op |-> "none", out |-> None]
Result(op, out) == [op |-> op, out |-> out]
Shadow(at, st, result) == [pc |-> at, status |-> st, result |-> result]

\* No call of create_word_document is under way.
RendererIdle ==
    /\ render_input = <<>>
    /\ render_pc = "none"
    /\ docx_bytes = NoDoc
    /\ docx_previous = NoDoc

\* Bound of the count of 'login' rows kept in login_logs.
MaxLogs == 2

\* supabase.table('observer_activity_logs').insert({..., "action": "login"})
\* at the top of the observer dashboard: one more 'login' row (counted up
\* to MaxLogs).
LogLogin(n) == IF n < MaxLogs THEN n + 1 ELSE n

\* Two browser sessions on the registration page, and the registration form
\* of one of them: its position, the e-mail submitted, the registrations
\* it has submitted and the message shown.
Sessions == {1, 2}
Form(at, email, submitted, message) ==
    [pc |-> at, email |-> email, submitted |-> submitted, message |-> message]

\* Nobody is registering and no observer is logged in.
DatabaseIdle ==
    /\ users = <<>>
    /\ registrations = [s \in Sessions |-> Form("none", <<>>, 0, "none")]
    /\ login_logs = 0

\* What a call has done before it returns or raises, and the arguments of
\* a call that was not made.
NoOutcome == [raised |-> FALSE, value |-> <<>>]
NoMail == [recipient_email |-> <<>>, subject |-> <<>>, message |-> <<>>,
           sender_password |-> None]

\* The e-mail form is not on the page.
MailIdle ==
    /\ send_pc = "none"
    /\ send_args = NoMail
    /\ server = "unbound"
    /\ send_pending = NoOutcome
    /\ send_outcome = NoOutcome
    /\ st_shown = "none"

\* No caller has invoked the extractor.
CallersIdle ==
    /\ extractor = Extractor
    /\ callers = [c \in Callers |-> Frame("none", 0, NoResult)]
    /\ cells = [c \in Callers |-> "none"]
    /\ alone = [c \in Callers |-> Shadow("none", "none", NoResult)]

Init == SessionInit /\ RendererIdle /\ CallersIdle /\ DatabaseIdle /\ MailIdle

\* ------------------------------------------------- login, logout, sidebar
\* login_form submitted with credentials of account a, then st.rerun().
Login(a) ==
    /\ pc = "idle"
    /\ ~auth.logged_in
    /\ auth' = [logged_in |-> TRUE, role |-> a.role, user_id |-> a.user_id,
                email |-> <<"e">>, name |-> a.name]
    /\ IF a.role \notin {"Admin", "Parent"}
       THEN /\ user_info' = Sidebar(user_info, auth')
            /\ pc' = "display"
       ELSE /\ user_info' = user_info
            /\ pc' = "idle"
    /\ st_errors' = {}
    /\ StartRun("login")
    /\ login_logs' = IF a.role \notin {"Admin", "Parent"} THEN LogLogin(0) ELSE 0
    /\ UNCHANGED <<audio_transcription, report_generated,
                   show_edit_transcript, processing_mode, assemblyai_key, renderer, concurrent, database, mail>>

\* logout_button clicked, then st.rerun() shows the login page.
Logout ==
    /\ pc = "idle"
    /\ auth.logged_in
    /\ auth' = [logged_in |-> FALSE, role |-> "None", user_id |-> "None"]
    /\ pc' = "idle"
    /\ st_errors' = {}
    /\ StartRun("logout")
    /\ login_logs' = IF auth.role \notin {"Admin", "Parent"}
                     THEN LogLogin(login_logs) ELSE login_logs
    /\ UNCHANGED <<user_info, audio_transcription, report_generated,
                   show_edit_transcript, processing_mode, assemblyai_key, renderer, concurrent, database, mail>>

\* The user types a student name into the sidebar.
SidebarInput(n) ==
    /\ pc = "idle"
    /\ OnDashboard
    /\ n # user_info.student_name
    /\ user_info' = [Sidebar(user_info, auth) EXCEPT !.student_name = n]
    /\ pc' = "display"
    /\ st_errors' = {}
    /\ StartRun("sidebar")
    /\ login_logs' = LogLogin(login_logs)
    /\ UNCHANGED <<auth, audio_transcription, report_generated,
                   show_edit_transcript, processing_mode, assemblyai_key, renderer, concurrent, database, mail>>

\* st.session_state.audio_transcription = "" of both mode buttons.
TranscriptionAfterSelectMut(old) == old
TranscriptionAfterSelect(old) == <<>>

\* "OCR Mode" or "Audio Mode" button.
SelectMode(m) ==
    /\ pc = "idle"
    /\ OnDashboard
    /\ user_info' = Sidebar(user_info, auth)
    /\ processing_mode' = m
    /\ audio_transcription' = TranscriptionAfterSelect(audio_transcription)
    /\ report_generated' = None
    /\ pc' = "display"
    /\ st_errors' = {}
    /\ StartRun("mode")
    /\ login_logs' = LogLogin(login_logs)
    /\ UNCHANGED <<auth, show_edit_transcript, assemblyai_key, renderer, concurrent, database, mail>>

\* ------------------------------------------------------------ image track
\* Where the run goes on after "except Exception as e: st.error(...)" of the
\* OCR branch caught an exception raised at step: the rest of the script.
OnProcessingErrorMut(step) == step
OnProcessingError(step) == "display"

ProcessingError(e) == <<"Processing error: ">> \o e

\* "if observations_text:"
HasObservationsMut(observations_text) == TRUE
HasObservations(observations_text) == Truthy(observations_text)

\* structured_data.get("observations", "")
ObservationsOf(sd) == Get(sd, "observations", <<>>)

\* Outcomes of a supabase select of the child by name, and of an insert.
LookupResults ==
    { Raise(d) : d \in Details } \cup { Return(<<>>), Return(<<"9">>) }
InsertResults == { Raise(d) : d \in Details } \cup { Return(<<>>) }

\* "Process Observation" clicked with a file uploaded.
ProcessObservation ==
    /\ pc = "idle"
    /\ OnDashboard
    /\ processing_mode = "ocr"
    /\ user_info' = Sidebar(user_info, auth)
    /\ pc' = "ocr"
    /\ st_errors' = {}
    /\ StartRun("ocr")
    /\ login_logs' = LogLogin(login_logs)
    /\ UNCHANGED <<auth, audio_transcription, report_generated,
                   show_edit_transcript, processing_mode, assemblyai_key, renderer, concurrent, database, mail>>

\* extractor.extract_text_with_ocr(uploaded_file)
OcrCall ==
    /\ pc = "ocr"
    /\ \E resp \in OcrResponses :
         LET r == extract_text_with_ocr(resp) IN
         /\ calls' = Issue("ocr")
         /\ responses' = [responses EXCEPT !.ocr = resp]
         /\ IF r.raised
            THEN /\ st_errors' = st_errors \cup
                        {<<"OCR Error: ">> \o r.value, ProcessingError(r.value)}
                 /\ stage' = [stage EXCEPT !.recognition = "failed"]
                 /\ pc' = OnProcessingError("ocr")
                 /\ extracted_text' = extracted_text
            ELSE /\ st_errors' = st_errors
                 /\ stage' = [stage EXCEPT !.recognition = "ok"]
                 /\ pc' = "groq"
                 /\ extracted_text' = r.value
    /\ UNCHANGED <<session, assemblyai_key, renderer, concurrent, database, mail,
                   login_logs, structured_data, child_id, transcript, status,
                   job_status, waits, inserted, docx_input, progress_bar,
                   narrative_arg, exit>>

\* extractor.process_with_groq(extracted_text), then the test of the
\* observations field.
GroqCall ==
    /\ pc = "groq"
    /\ \E resp \in GroqResponses :
         LET r == process_with_groq(resp) IN
         /\ calls' = Issue("groq")
         /\ IF r.raised
            THEN /\ st_errors' = st_errors \cup
                        {<<"Groq API Error: ">> \o r.value, ProcessingError(r.value)}
                 /\ stage' = [stage EXCEPT !.structuring = "failed"]
                 /\ pc' = OnProcessingError("groq")
                 /\ structured_data' = structured_data
            ELSE /\ stage' = [stage EXCEPT !.structuring = "ok"]
                 /\ structured_data' = r.value
                 /\ IF HasObservations(ObservationsOf(r.value))
                    THEN /\ pc' = "narrative"
                         /\ st_errors' = st_errors
                    ELSE /\ pc' = "display"
                         /\ st_errors' = st_errors \cup
                              {<<"No observations found in the extracted data">>}
    /\ UNCHANGED <<session, assemblyai_key, renderer, concurrent, database, mail, login_logs, extracted_text, child_id,
                   transcript, status, job_status, waits, inserted,
                   docx_input, progress_bar, narrative_arg, responses, exit>>

\* The text argument of generate_report_from_text in the OCR branch:
\* observations_text, not the raw OCR text.
ImageNarrativeInputMut(observations_text, raw) == raw
ImageNarrativeInput(observations_text, raw) == observations_text

\* The user_info argument of generate_report_from_text in the OCR branch:
\* st.session_state.user_info, whatever names structured_data holds.
ImageNarrativeMetaMut(info, sd) ==
    [info EXCEPT !.student_name = Get(sd, "studentName", info.student_name)]
ImageNarrativeMeta(info, sd) == info

\* extractor.generate_report_from_text(observations_text, user_info), the
\* assignment of report_generated and the choice of child_id.
NarrativeCall ==
    /\ pc = "narrative"
    /\ \E resp \in NarrativeResponses :
         LET observations_text == ObservationsOf(structured_data)
             text_content == ImageNarrativeInput(observations_text, extracted_text)
             r == generate_report_from_text(text_content,
                      ImageNarrativeMeta(user_info, structured_data), resp)
         IN
         /\ calls' = Issue("narrative")
         /\ narrative_arg' = text_content
         /\ responses' = [responses EXCEPT !.narrative =
                            IF resp.error # None THEN "failed" ELSE "ok"]
         /\ IF r.raised
            THEN /\ st_errors' = st_errors \cup {ProcessingError(r.value)}
                 /\ pc' = OnProcessingError("narrative")
                 /\ UNCHANGED <<report_generated, child_id, stage>>
            ELSE /\ st_errors' = st_errors
                 /\ report_generated' = r.value
                 /\ stage' = [stage EXCEPT !.report_assigned = TRUE]
                 /\ child_id' = Get(structured_data, "studentId", <<>>)
                 /\ pc' = IF ~Truthy(child_id') THEN "lookup" ELSE "insert"
    /\ UNCHANGED <<auth, user_info, audio_transcription, show_edit_transcript,
                   processing_mode, assemblyai_key, renderer, concurrent, database, mail, login_logs, extracted_text,
                   structured_data, transcript, status, job_status, waits,
                   inserted, docx_input, progress_bar, exit>>

\* supabase.table('users').select("id").ilike("name", ...)
ChildLookup ==
    /\ pc = "lookup"
    /\ \E r \in LookupResults :
         /\ calls' = Issue("lookup")
         /\ IF r.raised
            THEN /\ st_errors' = st_errors \cup {ProcessingError(r.value)}
                 /\ pc' = OnProcessingError("lookup")
                 /\ child_id' = child_id
            ELSE /\ st_errors' = st_errors
                 /\ pc' = "insert"
                 /\ child_id' = IF r.value # <<>> THEN r.value ELSE child_id
    /\ UNCHANGED <<session, assemblyai_key, renderer, concurrent, database, mail, login_logs, extracted_text, structured_data,
                   transcript, status, job_status, waits, inserted,
                   docx_input, progress_bar, narrative_arg, responses, exit,
                   stage>>

\* supabase.table('observations').insert({...}) of the OCR branch.
InsertObservation ==
    /\ pc = "insert"
    /\ \E r \in InsertResults :
         /\ calls' = Issue("insert")
         /\ IF r.raised
            THEN /\ st_errors' = st_errors \cup {ProcessingError(r.value)}
                 /\ pc' = OnProcessingError("insert")
                 /\ inserted' = inserted
            ELSE /\ st_errors' = st_errors
                 /\ pc' = "display"
                 /\ inserted' =
                      [username |-> auth.user_id,
                       student_name |-> Get(structured_data, "studentName", <<>>),
                       student_id |-> child_id,
                       observations |-> ObservationsOf(structured_data)]
    /\ UNCHANGED <<session, assemblyai_key, renderer, concurrent, database, mail, login_logs, locals, job_status, waits,
                   docx_input, progress_bar, narrative_arg, responses, exit,
                   stage>>

\* "Report Display and Download": the tail of every dashboard script run.
ReportDisplay ==
    /\ pc = "display"
    /\ docx_input' = IF Truthy(report_generated) THEN report_generated ELSE None
    /\ pc' = "idle"
    /\ UNCHANGED <<session, assemblyai_key, renderer, concurrent, database, mail, login_logs, locals, job_status, calls, waits,
                   st_errors, inserted, progress_bar, narrative_arg,
                   responses, exit, stage>>

\* ------------------------------------------------------------ audio track
\* "while status != 'completed' and status != 'error'"
LoopConditionMut(st) == st # "completed" /\ st # "error" /\ calls["poll"] < 2
LoopCondition(st) == st # "completed" /\ st # "error"

\* transcribe_with_assemblyai returns r.value to main, which assigns it to
\* st.session_state.audio_transcription and goes on to the narrative step.
TranscribeReturn(r) ==
    /\ transcript' = r.value
    /\ audio_transcription' = r.value
    /\ exit' = r.exit
    /\ stage' = [stage EXCEPT !.recognition =
                    IF r.exit = "completed" THEN "ok" ELSE "failed"]
    /\ pc' = "audio_narrative"

\* "Process & Generate Report" clicked with a file uploaded.
ProcessAudio ==
    /\ pc = "idle"
    /\ OnDashboard
    /\ processing_mode = "audio"
    /\ user_info' = Sidebar(user_info, auth)
    /\ IF ~assemblyai_key
       THEN /\ st_errors' = {<<"AssemblyAI API key is missing.">>}
            /\ pc' = "display"
       ELSE /\ st_errors' = {}
            /\ pc' = "upload"
    /\ StartRun("audio")
    /\ login_logs' = LogLogin(login_logs)
    /\ UNCHANGED <<auth, audio_transcription, report_generated,
                   show_edit_transcript, processing_mode, assemblyai_key, renderer, concurrent, database, mail>>

\* Entry of transcribe_with_assemblyai and its upload phase.
Upload ==
    /\ pc = "upload"
    /\ \E resp \in UploadResponses :
         IF ~assemblyai_key
         THEN /\ TranscribeReturn(Exit("key",
                    <<"Error: AssemblyAI API key is not configured. Please add it to your secrets.">>))
              /\ UNCHANGED <<calls, responses>>
         ELSE LET r == upload_step(resp) IN
              /\ calls' = Issue("upload")
              /\ responses' = [responses EXCEPT !.upload = resp.status_code,
                                                !.upload_text = resp.text]
              /\ IF r.done
                 THEN TranscribeReturn(r)
                 ELSE /\ pc' = "create"
                      /\ UNCHANGED <<transcript, audio_transcription, exit, stage>>
    /\ UNCHANGED <<auth, user_info, report_generated, show_edit_transcript,
                   processing_mode, assemblyai_key, renderer, concurrent, database, mail, login_logs, extracted_text,
                   structured_data, child_id, status, job_status, waits,
                   st_errors, inserted, docx_input, progress_bar,
                   narrative_arg>>

\* Transcription phase; on success the job exists and the poll loop is
\* entered with status = "processing" and an empty progress bar.
CreateTranscript ==
    /\ pc = "create"
    /\ \E resp \in CreateResponses :
         LET r == create_step(resp) IN
         /\ calls' = Issue("create")
         /\ responses' = [responses EXCEPT !.create = resp.status_code]
         /\ IF r.done
            THEN /\ TranscribeReturn(r)
                 /\ UNCHANGED <<status, job_status>>
            ELSE /\ status' = "processing"
                 /\ job_status' = "queued"
                 /\ IF LoopCondition("processing")
                    THEN /\ pc' = "poll"
                         /\ UNCHANGED <<transcript, audio_transcription, exit,
                                        stage>>
                    ELSE TranscribeReturn(Exit("timeout", TimedOut))
    /\ UNCHANGED <<auth, user_info, report_generated, show_edit_transcript,
                   processing_mode, assemblyai_key, renderer, concurrent, database, mail, login_logs, extracted_text,
                   structured_data, child_id, waits, st_errors, inserted,
                   docx_input, progress_bar, narrative_arg>>

\* The transcription service works on the job.
JobAdvance ==
    /\ pc \in {"poll", "wait"}
    /\ job_status \in {"queued", "processing"}
    /\ \E js \in {"processing", "completed", "error"} :
         /\ js # job_status
         /\ job_status' = js
    /\ UNCHANGED <<session, assemblyai_key, renderer, concurrent, database, mail, login_logs, pc, locals, effects>>

\* One status GET of the poll loop and the statements up to time.sleep.
Poll ==
    /\ pc = "poll"
    /\ calls["poll"] < MaxPolls
    /\ \E resp \in PollResponses(job_status) :
         LET r == poll_step(resp, status)
             has_status == /\ resp.exception = None
                           /\ resp.status_code = 200
                           /\ "status" \in DOMAIN resp.data
             progress == Get(resp.data, "percent_done", 0)
         IN
         /\ calls' = Issue("poll")
         /\ responses' = [responses EXCEPT
                            !.poll = resp.data,
                            !.poll_code = resp.status_code,
                            !.poll_text = resp.text,
                            !.pending = IF r.done THEN @ ELSE @ + 1]
         /\ status' = IF has_status THEN polled_status(resp.data, status)
                      ELSE status
         /\ IF r.done
            THEN /\ TranscribeReturn(r)
                 /\ progress_bar' = IF r.exit = "completed" THEN 100
                                    ELSE progress_bar
            ELSE /\ pc' = "wait"
                 /\ progress_bar' = IF progress # 0 THEN progress
                                    ELSE progress_bar
                 /\ UNCHANGED <<transcript, audio_transcription, exit, stage>>
    /\ UNCHANGED <<auth, user_info, report_generated, show_edit_transcript,
                   processing_mode, assemblyai_key, renderer, concurrent, database, mail, login_logs, extracted_text,
                   structured_data, child_id, job_status, waits, st_errors,
                   inserted, docx_input, narrative_arg>>

\* time.sleep(2), then the loop condition.
Wait ==
    /\ pc = "wait"
    /\ waits' = waits + 1
    /\ IF LoopCondition(status)
       THEN /\ pc' = "poll"
            /\ UNCHANGED <<transcript, audio_transcription, exit, stage>>
       ELSE TranscribeReturn(Exit("timeout", TimedOut))
    /\ UNCHANGED <<auth, user_info, report_generated, show_edit_transcript,
                   processing_mode, assemblyai_key, renderer, concurrent, database, mail, login_logs, extracted_text,
                   structured_data, child_id, status, job_status, calls,
                   st_errors, inserted, docx_input, progress_bar,
                   narrative_arg, responses>>

\* An exception no handler catches ends the script run; Streamlit shows it.
Uncaught(e) == <<"Traceback: ">> \o e

\* The text argument of generate_report_from_text in the audio branch:
\* the transcript as transcribe_with_assemblyai returned it.
AudioNarrativeInputMut(t) == Strip(t)
AudioNarrativeInput(t) == t

\* extractor.generate_report_from_text(transcript, user_info) of the audio
\* branch and the assignment of report_generated.
AudioNarrative ==
    /\ pc = "audio_narrative"
    /\ \E resp \in NarrativeResponses :
         LET text_content == AudioNarrativeInput(transcript)
             r == generate_report_from_text(text_content, user_info, resp)
         IN
         /\ calls' = Issue("narrative")
         /\ narrative_arg' = text_content
         /\ responses' = [responses EXCEPT !.narrative =
                            IF resp.error # None THEN "failed" ELSE "ok"]
         /\ IF r.raised
            THEN /\ st_errors' = st_errors \cup {Uncaught(r.value)}
                 /\ pc' = "idle"
                 /\ UNCHANGED <<report_generated, stage>>
            ELSE /\ st_errors' = st_errors
                 /\ pc' = "audio_insert"
                 /\ report_generated' = r.value
                 /\ stage' = [stage EXCEPT !.report_assigned = TRUE]
    /\ UNCHANGED <<auth, user_info, audio_transcription, show_edit_transcript,
                   processing_mode, assemblyai_key, renderer, concurrent, database, mail, login_logs, locals, job_status, waits,
                   inserted, docx_input, progress_bar, exit>>

\* supabase.table('observations').insert({...}) of the audio branch.
AudioInsert ==
    /\ pc = "audio_insert"
    /\ \E r \in InsertResults :
         /\ calls' = Issue("insert")
         /\ IF r.raised
            THEN /\ st_errors' = st_errors \cup {Uncaught(r.value)}
                 /\ pc' = "idle"
                 /\ inserted' = inserted
            ELSE /\ st_errors' = st_errors
                 /\ pc' = "display"
                 /\ inserted' =
                      [username |-> auth.user_id,
                       student_name |-> user_info.student_name,
                       student_id |-> <<>>,
                       observations |-> transcript]
    /\ UNCHANGED <<session, assemblyai_key, renderer, concurrent, database, mail, login_logs, locals, job_status, waits,
                   docx_input, progress_bar, narrative_arg, responses, exit,
                   stage>>

\* ------------------------------------------------------ transcript editor
\* "Edit Transcription" / "Hide Editor" button.
ToggleEditor ==
    /\ pc = "idle"
    /\ OnDashboard
    /\ Truthy(audio_transcription)
    /\ user_info' = Sidebar(user_info, auth)
    /\ show_edit_transcript' = ~show_edit_transcript
    /\ pc' = "display"
    /\ st_errors' = {}
    /\ StartRun("toggle")
    /\ login_logs' = LogLogin(login_logs)
    /\ UNCHANGED <<auth, audio_transcription, report_generated,
                   processing_mode, assemblyai_key, renderer, concurrent, database, mail>>

\* The user changes the text of the text area to edited.
EditTranscript(edited) ==
    /\ pc = "idle"
    /\ OnDashboard
    /\ Truthy(audio_transcription)
    /\ show_edit_transcript
    /\ edited # audio_transcription
    /\ user_info' = Sidebar(user_info, auth)
    /\ audio_transcription' = edited
    /\ pc' = "display"
    /\ st_errors' = {}
    /\ StartRun("edit")
    /\ login_logs' = LogLogin(login_logs)
    /\ UNCHANGED <<auth, report_generated, show_edit_transcript,
                   processing_mode, assemblyai_key, renderer, concurrent, database, mail>>

\* What the click on "Regenerate Report with Edited Transcript" runs: the
\* narrative call of the editor, nothing of the audio branch.
AfterRegenerateClickMut == "upload"
AfterRegenerateClick == "regenerate"

\* "Regenerate Report with Edited Transcript" clicked.
Regenerate ==
    /\ pc = "idle"
    /\ OnDashboard
    /\ Truthy(audio_transcription)
    /\ show_edit_transcript
    /\ user_info' = Sidebar(user_info, auth)
    /\ pc' = AfterRegenerateClick
    /\ st_errors' = {}
    /\ StartRun("regenerate")
    /\ login_logs' = LogLogin(login_logs)
    /\ UNCHANGED <<auth, audio_transcription, report_generated,
                   show_edit_transcript, processing_mode, assemblyai_key, renderer, concurrent, database, mail>>

\* extractor.generate_report_from_text(edited, user_info) of the editor.
RegenerateNarrative ==
    /\ pc = "regenerate"
    /\ \E resp \in NarrativeResponses :
         LET edited == audio_transcription
             r == generate_report_from_text(edited, user_info, resp)
         IN
         /\ calls' = Issue("narrative")
         /\ narrative_arg' = edited
         /\ responses' = [responses EXCEPT !.narrative =
                            IF resp.error # None THEN "failed" ELSE "ok"]
         /\ IF r.raised
            THEN /\ st_errors' = st_errors \cup {Uncaught(r.value)}
                 /\ pc' = "idle"
                 /\ UNCHANGED <<report_generated, stage>>
            ELSE /\ st_errors' = st_errors
                 /\ pc' = "display"
                 /\ report_generated' = r.value
                 /\ stage' = [stage EXCEPT !.report_assigned = TRUE]
    /\ UNCHANGED <<auth, user_info, audio_transcription, show_edit_transcript,
                   processing_mode, assemblyai_key, renderer, concurrent, database, mail, login_logs, locals, job_status, waits,
                   inserted, docx_input, progress_bar, exit>>

\* ---------------------------------------------------------- specification
Next ==
    \/ \E a \in Accounts : Login(a)
    \/ Logout
    \/ \E n \in Names : SidebarInput(n)
    \/ \E m \in {"ocr", "audio"} : SelectMode(m)
    \/ ProcessObservation
    \/ OcrCall
    \/ GroqCall
    \/ NarrativeCall
    \/ ChildLookup
    \/ InsertObservation
    \/ ProcessAudio
    \/ Upload
    \/ CreateTranscript
    \/ JobAdvance
    \/ Poll
    \/ Wait
    \/ AudioNarrative
    \/ AudioInsert
    \/ ToggleEditor
    \/ \E t \in Texts : EditTranscript(t)
    \/ Regenerate
    \/ RegenerateNarrative
    \/ ReportDisplay

Spec == Init /\ [][Next]_vars

\* A script run that has started goes on step by step until it ends.
RunStep ==
    \/ OcrCall \/ GroqCall \/ NarrativeCall \/ ChildLookup
    \/ InsertObservation \/ Upload \/ CreateTranscript \/ Poll \/ Wait
    \/ AudioNarrative \/ AudioInsert \/ RegenerateNarrative \/ ReportDisplay

FairSpec == Spec /\ WF_vars(RunStep)

\* ------------------------------------------- the renderer on its own
\* extractor.create_word_document(report_content) for a non-empty text.
InitRender ==
    /\ SessionInit
    /\ CallersIdle
    /\ DatabaseIdle
    /\ MailIdle
    /\ render_input \in RenderInputs \cup Reports
    /\ render_pc = "ready"
    /\ docx_bytes = NoDoc
    /\ docx_previous = NoDoc

Render ==
    /\ render_pc = "ready"
    /\ docx_bytes' = RenderCall(<<>>, render_input)
    /\ render_pc' = "done"
    /\ UNCHANGED <<session, assemblyai_key, pc, locals, job_status, effects,
                   render_input, docx_previous, concurrent, database, mail,
                   login_logs>>

\* The same text is rendered once more (the script reruns, or the e-mail
\* form is submitted after the download button was drawn).
Rerender ==
    /\ render_pc = "done"
    /\ docx_previous' = docx_bytes
    /\ docx_bytes' = RenderCall(docx_bytes.value, render_input)
    /\ render_pc' = "again"
    /\ UNCHANGED <<session, assemblyai_key, pc, locals, job_status, effects,
                   render_input, concurrent, database, mail, login_logs>>

NextRender == Render \/ Rerender

SpecRender == InitRender /\ [][NextRender]_vars

\* -------------------------------- two callers of the extractor, interleaved
\* Each caller invokes one operation of the extractor.  callers[c] is the
\* frame of caller c as the interleaved execution has it; alone[c] is the
\* same call on private locals, as it runs without the other caller.
InitCallers ==
    /\ SessionInit
    /\ RendererIdle
    /\ DatabaseIdle
    /\ MailIdle
    /\ extractor = Extractor
    /\ callers = [c \in Callers |-> Frame("ready", 0, NoResult)]
    /\ cells = [c \in Callers |-> "none"]
    /\ alone = [c \in Callers |-> Shadow("ready", "none", NoResult)]

\* The cell that holds the local variable "status" of caller c's call.
StatusCellMut(c) == 1
StatusCell(c) == c

\* Caller c's call returns (or raises) out.
Finish(c, op, out) ==
    /\ callers' = [callers EXCEPT ![c].pc = "done", ![c].result = Result(op, out)]
    /\ alone' = [alone EXCEPT ![c].pc = "done", ![c].result = Result(op, out)]

CallerRest == <<session, assemblyai_key, pc, locals, job_status, effects,
                renderer, extractor, database, mail, login_logs>>

CallOcr(c) ==
    /\ callers[c].pc = "ready"
    /\ \E resp \in OcrResponses : Finish(c, "ocr", extract_text_with_ocr(resp))
    /\ UNCHANGED <<CallerRest, cells>>

CallGroq(c) ==
    /\ callers[c].pc = "ready"
    /\ \E resp \in GroqResponses : Finish(c, "groq", process_with_groq(resp))
    /\ UNCHANGED <<CallerRest, cells>>

CallNarrative(c) ==
    /\ callers[c].pc = "ready"
    /\ \E resp \in NarrativeResponses :
         Finish(c, "narrative", generate_report_from_text(Hello, user_info, resp))
    /\ UNCHANGED <<CallerRest, cells>>

CallRender(c) ==
    /\ callers[c].pc = "ready"
    /\ \E text \in RenderLines \ {<<>>} :
         Finish(c, "render", create_word_document(text))
    /\ UNCHANGED <<CallerRest, cells>>

\* Entry of transcribe_with_assemblyai.
CallTranscribe(c) ==
    /\ callers[c].pc = "ready"
    /\ IF ~assemblyai_key
       THEN Finish(c, "transcribe",
                   <<"Error: AssemblyAI API key is not configured. Please add it to your secrets.">>)
       ELSE /\ callers' = [callers EXCEPT ![c].pc = "upload"]
            /\ alone' = [alone EXCEPT ![c].pc = "upload"]
    /\ UNCHANGED <<CallerRest, cells>>

CallerUpload(c) ==
    /\ callers[c].pc = "upload"
    /\ \E resp \in UploadResponses :
         LET r == upload_step(resp) IN
         IF r.done THEN Finish(c, "transcribe", r.value)
         ELSE /\ callers' = [callers EXCEPT ![c].pc = "create"]
              /\ alone' = [alone EXCEPT ![c].pc = "create"]
    /\ UNCHANGED <<CallerRest, cells>>

CallerCreate(c) ==
    /\ callers[c].pc = "create"
    /\ \E resp \in CreateResponses :
         LET r == create_step(resp) IN
         IF r.done
         THEN /\ Finish(c, "transcribe", r.value)
              /\ UNCHANGED cells
         ELSE /\ cells' = [cells EXCEPT ![StatusCell(c)] = "processing"]
              /\ callers' = [callers EXCEPT ![c].pc = "poll"]
              /\ alone' = [alone EXCEPT ![c].pc = "poll",
                                        ![c].status = "processing"]
    /\ UNCHANGED CallerRest

\* Responses of the status polls of a caller's job.
CallerPollResponses == PollResponses("processing") \cup PollResponses("completed")

HasStatus(resp) ==
    /\ resp.exception = None
    /\ resp.status_code = 200
    /\ "status" \in DOMAIN resp.data

CallerPoll(c) ==
    /\ callers[c].pc = "poll"
    /\ callers[c].polls < MaxPolls
    /\ \E resp \in CallerPollResponses :
         LET old == cells[StatusCell(c)]
             r == poll_step(resp, old)
             ra == poll_step(resp, alone[c].status)
         IN
         /\ cells' = IF HasStatus(resp)
                     THEN [cells EXCEPT ![StatusCell(c)] = polled_status(resp.data, old)]
                     ELSE cells
         /\ callers' = [callers EXCEPT
                          ![c].polls = @ + 1,
                          ![c].pc = IF r.done THEN "done" ELSE "wait",
                          ![c].result = IF r.done THEN Result("transcribe", r.value)
                                        ELSE @]
         /\ alone' = [alone EXCEPT
                        ![c].status = IF HasStatus(resp)
                                      THEN polled_status(resp.data, @) ELSE @,
                        ![c].pc = IF ra.done THEN "done" ELSE "wait",
                        ![c].result = IF ra.done THEN Result("transcribe", ra.value)
                                      ELSE @]
    /\ UNCHANGED CallerRest

\* time.sleep(2), then the loop condition on the local status.
CallerWait(c) ==
    /\ callers[c].pc = "wait"
    /\ callers' = [callers EXCEPT
                     ![c].pc = IF LoopCondition(cells[StatusCell(c)])
                               THEN "poll" ELSE "done",
                     ![c].result = IF LoopCondition(cells[StatusCell(c)]) THEN @
                                   ELSE Result("transcribe", TimedOut)]
    /\ alone' = [alone EXCEPT
                   ![c].pc = IF LoopCondition(alone[c].status)
                             THEN "poll" ELSE "done",
                   ![c].result = IF LoopCondition(alone[c].status) THEN @
                                 ELSE Result("transcribe", TimedOut)]
    /\ UNCHANGED <<CallerRest, cells>>

NextCallers ==
    \/ \E c \in Callers : CallOcr(c)
    \/ \E c \in Callers : CallGroq(c)
    \/ \E c \in Callers : CallNarrative(c)
    \/ \E c \in Callers : CallRender(c)
    \/ \E c \in Callers : CallTranscribe(c)
    \/ \E c \in Callers : CallerUpload(c)
    \/ \E c \in Callers : CallerCreate(c)
    \/ \E c \in Callers : CallerPoll(c)
    \/ \E c \in Callers : CallerWait(c)

SpecCallers == InitCallers /\ [][NextCallers]_vars

\* ------------------ two runs of the transcriber that differ in percent_done
\* callers[1] and callers[2] are two calls of transcribe_with_assemblyai that
\* receive the same responses, except that the polls of one may report
\* another percent_done than the polls of the other.
TwinFrame(at, polls, result, bar) ==
    [pc |-> at, polls |-> polls, result |-> result, progress_bar |-> bar]

InitTwins ==
    /\ SessionInit
    /\ RendererIdle
    /\ DatabaseIdle
    /\ MailIdle
    /\ extractor = Extractor
    /\ callers = [c \in Callers |-> TwinFrame("ready", 0, NoResult, 0)]
    /\ cells = [c \in Callers |-> "none"]
    /\ alone = [c \in Callers |-> Shadow("none", "none", NoResult)]

\* The frame after a step of the function that returned or went on.
AfterStep(frame, r, next) ==
    [frame EXCEPT !.pc = IF r.done THEN "done" ELSE next,
                  !.result = IF r.done THEN Result("transcribe", r.value) ELSE @]

\* The frame after one iteration of the poll loop, up to time.sleep.
AfterPoll(frame, old, resp) ==
    LET r == poll_step(resp, old)
        progress == Get(resp.data, "percent_done", 0)
    IN [AfterStep(frame, r, "wait") EXCEPT
          !.polls = @ + 1,
          !.progress_bar = IF r.done
                           THEN (IF r.exit = "completed" THEN 100 ELSE @)
                           ELSE IF progress # 0 THEN progress ELSE @]

\* The local status after one iteration of the poll loop.
StatusAfterPoll(old, resp) ==
    IF HasStatus(resp) THEN polled_status(resp.data, old) ELSE old

\* The frame after time.sleep(2) and the loop condition.
AfterWait(frame, st) ==
    IF LoopCondition(st) THEN [frame EXCEPT !.pc = "poll"]
    ELSE [frame EXCEPT !.pc = "done", !.result = Result("transcribe", TimedOut)]

\* The body of a poll response without its percent_done.
WithoutPercent(data) == [k \in DOMAIN data \ {"percent_done"} |-> data[k]]

\* Two poll responses that agree on everything but percent_done.
SameButPercent(r1, r2) ==
    /\ r1.exception = r2.exception
    /\ r1.status_code = r2.status_code
    /\ r1.text = r2.text
    /\ DOMAIN r1.data \ {"percent_done"} = DOMAIN r2.data \ {"percent_done"}
    /\ WithoutPercent(r1.data) = WithoutPercent(r2.data)

TwinsAt(at) == \A c \in Callers : callers[c].pc = at

TwinRest == <<CallerRest, alone>>

TwinStart ==
    /\ TwinsAt("ready")
    /\ callers' =
         [c \in Callers |->
            IF ~assemblyai_key
            THEN [callers[c] EXCEPT
                    !.pc = "done",
                    !.result = Result("transcribe",
                        <<"Error: AssemblyAI API key is not configured. Please add it to your secrets.">>)]
            ELSE [callers[c] EXCEPT !.pc = "upload"]]
    /\ UNCHANGED <<TwinRest, cells>>

TwinUpload ==
    /\ TwinsAt("upload")
    /\ \E resp \in UploadResponses :
         callers' = [c \in Callers |->
                       AfterStep(callers[c], upload_step(resp), "create")]
    /\ UNCHANGED <<TwinRest, cells>>

TwinCreate ==
    /\ TwinsAt("create")
    /\ \E resp \in CreateResponses :
         /\ callers' = [c \in Callers |->
                          AfterStep(callers[c], create_step(resp), "poll")]
         /\ cells' = IF create_step(resp).done THEN cells
                     ELSE [c \in Callers |-> "processing"]
    /\ UNCHANGED TwinRest

TwinPoll ==
    /\ TwinsAt("poll")
    /\ \A c \in Callers : callers[c].polls < MaxPolls
    /\ \E r1, r2 \in CallerPollResponses :
         /\ SameButPercent(r1, r2)
         /\ callers' = [c \in Callers |->
                          AfterPoll(callers[c], cells[c], IF c = 1 THEN r1 ELSE r2)]
         /\ cells' = [c \in Callers |->
                        StatusAfterPoll(cells[c], IF c = 1 THEN r1 ELSE r2)]
    /\ UNCHANGED TwinRest

TwinWait ==
    /\ TwinsAt("wait")
    /\ callers' = [c \in Callers |-> AfterWait(callers[c], cells[c])]
    /\ UNCHANGED <<TwinRest, cells>>

NextTwins == TwinStart \/ TwinUpload \/ TwinCreate \/ TwinPoll \/ TwinWait

SpecTwins == InitTwins /\ [][NextTwins]_vars

\* ------------------------------------ registration from two browser sessions
\* Bound of the registrations one session submits.
MaxRegistrations == 2

\* str.lower() on the characters of the e-mails below.
RECURSIVE Lower(_)
Lower(s) ==
    IF s = <<>> THEN <<>>
    ELSE <<IF Head(s) = "A" THEN "a" ELSE IF Head(s) = "B" THEN "b" ELSE Head(s)>>
         \o Lower(Tail(s))

\* What is typed into the form's "Email" and password fields.
EmailInputs == {<<>>, <<"a">>, <<"A", " ">>, <<"b">>}
PasswordInputs == {<<"p">>, <<"p", "a", "s", "s", "w", "o", "r", "d">>}

\* The three tests of the submitted form; "ok" when all pass.
Validate(email, password, confirm_password) ==
    IF ~Truthy(email) \/ ~Truthy(password) \/ ~Truthy(confirm_password)
    THEN "Please fill in all required fields"
    ELSE IF password # confirm_password THEN "Passwords do not match!"
    ELSE IF Len(password) < 8 THEN "Password must be at least 8 characters"
    ELSE "ok"

\* supabase.table('users').select("email").eq("email", email)
Existing(rows, email) == { i \in 1..Len(rows) : rows[i].email = email }

InitRegister ==
    /\ SessionInit
    /\ RendererIdle
    /\ CallersIdle
    /\ users = <<>>
    /\ registrations = [s \in Sessions |-> Form("form", <<>>, 0, "none")]
    /\ login_logs = 0
    /\ MailIdle

RegisterRest == <<session, assemblyai_key, pc, locals, job_status, effects,
                  renderer, concurrent, mail, login_logs>>

\* "Register" pressed: the form is validated.
RegSubmit(s) ==
    /\ registrations[s].pc = "form"
    /\ registrations[s].submitted < MaxRegistrations
    /\ \E typed \in EmailInputs, password, confirm_password \in PasswordInputs :
         LET email == Lower(Strip(typed))
             message == Validate(email, password, confirm_password)
         IN registrations' =
              [registrations EXCEPT
                 ![s] = Form(IF message = "ok" THEN "check" ELSE "form", email,
                             @.submitted + 1, message)]
    /\ UNCHANGED <<RegisterRest, users>>

\* The select that looks for the e-mail.
RegCheck(s) ==
    /\ registrations[s].pc = "check"
    /\ \E answered \in BOOLEAN :
         registrations' =
           [registrations EXCEPT
              ![s].pc = IF answered /\ Existing(users, registrations[s].email) = {}
                        THEN "insert" ELSE "form",
              ![s].message =
                  IF ~answered THEN "Registration failed"
                  ELSE IF Existing(users, registrations[s].email) # {}
                  THEN "Email already registered. Please login instead."
                  ELSE @]
    /\ UNCHANGED <<RegisterRest, users>>

\* The insert of the new row; the table's own answer is not the program's.
RegInsert(s) ==
    /\ registrations[s].pc = "insert"
    /\ \E accepted \in BOOLEAN :
         IF accepted
         THEN /\ users' = Append(users, [email |-> registrations[s].email])
              /\ registrations' =
                   [registrations EXCEPT
                      ![s].pc = "login",
                      ![s].message = "Registration successful! Please login."]
         ELSE /\ users' = users
              /\ registrations' =
                   [registrations EXCEPT ![s].pc = "form",
                                         ![s].message = "Registration failed"]
    /\ UNCHANGED RegisterRest

\* "Register Here" on the login page.
RegisterHere(s) ==
    /\ registrations[s].pc = "login"
    /\ registrations' = [registrations EXCEPT ![s].pc = "form"]
    /\ UNCHANGED <<RegisterRest, users>>

NextRegister ==
    \/ \E s \in Sessions : RegSubmit(s)
    \/ \E s \in Sessions : RegCheck(s)
    \/ \E s \in Sessions : RegInsert(s)
    \/ \E s \in Sessions : RegisterHere(s)

SpecRegister == InitRegister /\ [][NextRegister]_vars

\* ------------------------------------------- the e-mail form and send_email
\* What the recipient field of the form can hold (its default, or nothing),
\* and st.secrets.get("EMAIL_PASSWORD"): the secret, or None when it is
\* not configured.
RecipientInputs == {<<"parent@example.com">>, <<>>}
SecretInputs == {<<"app-password">>, None}

\* The exceptions of smtplib that derive from smtplib.SMTPException; a
\* refused or timed-out connection and a failed TLS handshake raise other
\* subclasses of OSError.
SMTPExceptions ==
    {"SMTPConnectError", "SMTPNotSupportedError", "SMTPAuthenticationError",
     "SMTPRecipientsRefused", "SMTPServerDisconnected"}

\* What each call on the SMTP server can do: "ok" or the exception raised.
ConnectOutcomes == {"ok", "SMTPConnectError", "ConnectionRefusedError"}
StartTlsOutcomes ==
    {"ok", "SMTPNotSupportedError", "SMTPServerDisconnected", "SSLError"}
LoginOutcomes(sender_password) ==
    IF sender_password = None
    THEN {"SMTPAuthenticationError", "SMTPServerDisconnected"}
    ELSE {"ok", "SMTPAuthenticationError", "SMTPServerDisconnected"}
SendOutcomes(recipient_email) ==
    IF recipient_email = <<>>
    THEN {"SMTPRecipientsRefused", "SMTPServerDisconnected"}
    ELSE {"ok", "SMTPRecipientsRefused", "SMTPServerDisconnected"}

\* The except clauses of send_email: what the try statement has pending
\* after exception e, before "finally" runs.
Handle(e) ==
    IF e = "SMTPAuthenticationError"
    THEN Return(<<FALSE, <<"Error: Authentication failed. Check your email and password.">>>>)
    ELSE IF e \in SMTPExceptions
    THEN Return(<<FALSE, <<"Error: Failed to send email. ", e>>>>)
    ELSE Raise(<<e>>)

\* The connection after a call on it raised e: smtplib closes the socket
\* when the server has gone.
AfterError(conn, e) == IF e = "SMTPServerDisconnected" THEN "lost" ELSE conn

\* "finally: server.quit()": the name is unbound when smtplib.SMTP raised,
\* and quit() on a closed socket raises SMTPServerDisconnected; an exception
\* of the finally clause replaces what the try statement had pending.
Finally(conn, pending) ==
    IF conn = "unbound" THEN Raise(<<"UnboundLocalError">>)
    ELSE IF conn = "lost" THEN Raise(<<"SMTPServerDisconnected">>)
    ELSE pending

\* A logged-in observer looks at a generated report: the e-mail form is on
\* the page.
InitEmail ==
    /\ \E a \in Accounts, info \in ReportInfos, resp \in NarrativeResponses :
         /\ a.role = "Observer"
         /\ auth = [logged_in |-> TRUE, role |-> a.role, user_id |-> a.user_id,
                    email |-> None, name |-> a.name]
         /\ user_info = info
         /\ report_generated = generate_report_from_text(Hello, info, resp).value
    /\ Truthy(report_generated)
    /\ audio_transcription = <<>>
    /\ show_edit_transcript = FALSE
    /\ processing_mode = "ocr"
    /\ assemblyai_key \in BOOLEAN
    /\ pc = "idle"
    /\ extracted_text = None
    /\ structured_data = NoData
    /\ child_id = None
    /\ transcript = None
    /\ status = "none"
    /\ job_status = "none"
    /\ calls = ZeroCalls
    /\ waits = 0
    /\ st_errors = <<>>
    /\ inserted = NoRow
    /\ docx_input = None
    /\ progress_bar = 0
    /\ narrative_arg = None
    /\ responses = NoResponses
    /\ exit = "none"
    /\ stage = NoStage
    /\ RendererIdle
    /\ CallersIdle
    /\ users = <<>>
    /\ registrations = [s \in Sessions |-> Form("none", <<>>, 0, "none")]
    /\ login_logs = 1
    /\ send_pc = "form"
    /\ send_args = NoMail
    /\ server = "unbound"
    /\ send_pending = NoOutcome
    /\ send_outcome = NoOutcome
    /\ st_shown = "none"

EmailRest == <<session, assemblyai_key, pc, locals, job_status, effects,
               concurrent, database>>

\* "Send Email" pressed: the script reruns (the 'login' row and the Word
\* document are made again), send_email is called and builds the message.
EmailSubmit ==
    /\ send_pc = "form"
    /\ \E to_email \in RecipientInputs, secret \in SecretInputs :
         send_args' =
            [recipient_email |-> to_email,
             subject |-> <<"Observer Report for ">> \o user_info.student_name,
             message |-> report_generated,
             sender_password |-> secret]
    /\ login_logs' = LogLogin(login_logs)
    /\ render_input' = report_generated
    /\ docx_previous' = docx_bytes
    /\ docx_bytes' = RenderCall(<<>>, report_generated)
    /\ render_pc' = "done"
    /\ send_pc' = "connect"
    /\ server' = "unbound"
    /\ send_pending' = NoOutcome
    /\ send_outcome' = NoOutcome
    /\ st_shown' = "none"
    /\ UNCHANGED EmailRest

\* One step of the try block: the call went well and the function goes on
\* at "next" with connection "conn", or it raised e and the except clauses
\* ran, so that "finally" is next.
TryStep(e, conn, next) ==
    /\ IF e = "ok"
       THEN /\ server' = conn
            /\ send_pc' = next
            /\ send_pending' =
                  IF next = "finally"
                  THEN Return(<<TRUE, <<"Email sent to ">> \o send_args.recipient_email>>)
                  ELSE send_pending
       ELSE /\ server' = AfterError(server, e)
            /\ send_pc' = "finally"
            /\ send_pending' = Handle(e)
    /\ UNCHANGED <<send_args, send_outcome, st_shown, EmailRest, renderer,
                   login_logs>>

\* server = smtplib.SMTP(smtp_server, smtp_port)
SmtpConnect ==
    /\ send_pc = "connect"
    /\ \E e \in ConnectOutcomes : TryStep(e, "connected", "starttls")

\* server.starttls()
SmtpStartTls ==
    /\ send_pc = "starttls"
    /\ \E e \in StartTlsOutcomes : TryStep(e, server, "login")

\* server.login(sender_email, sender_password)
SmtpLogin ==
    /\ send_pc = "login"
    /\ \E e \in LoginOutcomes(send_args.sender_password) :
         TryStep(e, server, "send_message")

\* server.send_message(msg), then "return True, ..."
SmtpSendMessage ==
    /\ send_pc = "send_message"
    /\ \E e \in SendOutcomes(send_args.recipient_email) :
         TryStep(e, server, "finally")

\* finally: server.quit(); the call returns or raises.
SmtpQuit ==
    /\ send_pc = "finally"
    /\ send_outcome' = Finally(server, send_pending)
    /\ server' = IF server = "connected" THEN "closed" ELSE server
    /\ send_pc' = "returned"
    /\ UNCHANGED <<send_args, send_pending, st_shown, EmailRest, renderer,
                   login_logs>>

\* "success, message = ...": st.success or st.error; an exception of the
\* call ends the script run with Streamlit's traceback.  The form is on the
\* page again.
ShowOutcome ==
    /\ send_pc = "returned"
    /\ st_shown' = IF send_outcome.raised THEN "exception"
                   ELSE IF send_outcome.value[1] THEN "success"
                   ELSE "error"
    /\ send_pc' = "form"
    /\ UNCHANGED <<send_args, server, send_pending, send_outcome, EmailRest,
                   renderer, login_logs>>

NextEmail ==
    \/ EmailSubmit
    \/ SmtpConnect
    \/ SmtpStartTls
    \/ SmtpLogin
    \/ SmtpSendMessage
    \/ SmtpQuit
    \/ ShowOutcome

SpecEmail == InitEmail /\ [][NextEmail]_vars

\* ------------------------------------------------------------ properties
Terminal == {"completed", "error"}

\* The last poll of the run was answered 200 with a job status.
PolledStatus == "status" \in DOMAIN responses.poll

\* C1: in both tracks a failed recognition or structuring step aborts the
\* run: no later stage (structuring, narrative generation, insert into
\* observations, assignment of report_generated) is executed in that run and
\* the failure reaches the caller (an st.error message, or the error text
\* the audio adapter returns).
AbortsOnStageFailure ==
    /\ stage.recognition = "failed" =>
         /\ calls["groq"] = 0
         /\ calls["narrative"] = 0
         /\ calls["insert"] = 0
         /\ ~stage.report_assigned
         /\ st_errors # {} \/ Truthy(transcript)
    /\ stage.structuring = "failed" =>
         /\ calls["narrative"] = 0
         /\ calls["insert"] = 0
         /\ ~stage.report_assigned
         /\ st_errors # {}

\* C2: the transcript-create request is issued only after an upload answered
\* 200 and a poll only after a create answered 200; an upload answered with
\* another status ends the adapter with the error text that carries the
\* response body, and neither create nor poll is issued.
AudioPhasesGated ==
    /\ calls["create"] > 0 => responses.upload = 200
    /\ calls["poll"] > 0 => responses.create = 200
    /\ (calls["upload"] > 0 /\ responses.upload \notin {0, 200}) =>
         /\ exit = "upload"
         /\ transcript = <<"Error uploading audio: ">> \o responses.upload_text
         /\ calls["create"] = 0
         /\ calls["poll"] = 0

UploadRejected ==
    /\ responses.upload = 500
    /\ responses.upload_text \in Details
    /\ exit = "upload"
    /\ pc = "audio_narrative"

\* C3: when the first n polls of a job are answered with a non-terminal
\* status and poll n+1 with "completed" and text T, the adapter returns
\* exactly T after n+1 polls and n interval waits.
CompletedAfterPending ==
    exit = "completed" =>
        /\ transcript = responses.poll.text
        /\ calls["poll"] = responses.pending + 1
        /\ waits = responses.pending

HelloAfterThreeWaits ==
    /\ exit = "completed"
    /\ responses.pending = 3
    /\ waits = 3
    /\ transcript = Hello

\* C4: after a poll answered with a non-terminal status the adapter has not
\* returned and its next step is one interval wait followed by another poll;
\* on "completed" it returns the text, on "error" it returns the error text
\* with the reason the service reported; no poll follows a terminal status.
PollLoopInv ==
    /\ (PolledStatus /\ responses.poll.status \notin Terminal) =>
         /\ exit = "none"
         /\ pc \in {"wait", "poll"}
    /\ (PolledStatus /\ responses.poll.status = "completed") =>
         /\ exit = "completed"
         /\ transcript = responses.poll.text
    /\ (PolledStatus /\ responses.poll.status = "error") =>
         /\ exit = "error"
         /\ transcript = <<"Transcription error: ">> \o
                           Get(responses.poll, "error", <<"Unknown error">>)

PollLoopStep ==
    /\ (pc = "wait" /\ pc' # pc) => (pc' = "poll" /\ waits' = waits + 1)
    /\ (pc = "poll" /\ pc' = "wait") =>
         (calls'["poll"] = calls["poll"] + 1 /\ waits' = waits)
    /\ (PolledStatus /\ responses.poll.status \in Terminal) =>
         calls'["poll"] <= calls["poll"]

PollPhase == []PollLoopInv /\ [][PollLoopStep]_vars

ServiceErrorReported ==
    /\ exit = "error"
    /\ waits >= 1
    /\ "error" \in DOMAIN responses.poll
    /\ transcript = <<"Transcription error: ">> \o responses.poll.error

\* C5: neither recognition adapter returns successfully with a text that is
\* empty or consists of whitespace only.
NoBlankRecognition ==
    /\ (stage.recognition = "ok" /\ calls["ocr"] > 0) =>
         Truthy(Strip(extracted_text))
    /\ exit = "completed" => Truthy(Strip(transcript))

\* C6: on the image track a structuring reply without an observations key,
\* or with an empty one, gives observations "" and ends the run with the
\* message "No observations found": the narrative generator is not called,
\* report_generated is not assigned and nothing is inserted.
NoObservationsEndsRun ==
    (/\ stage.structuring = "ok"
     /\ \/ "observations" \notin DOMAIN structured_data
        \/ structured_data.observations = <<>>)
    =>
        /\ ObservationsOf(structured_data) = <<>>
        /\ pc \in {"display", "idle"}
        /\ st_errors = {<<"No observations found in the extracted data">>}
        /\ calls["narrative"] = 0
        /\ narrative_arg = None
        /\ ~stage.report_assigned
        /\ calls["lookup"] = 0
        /\ calls["insert"] = 0
        /\ inserted = NoRow

ReplyLacksObservations ==
    /\ stage.structuring = "ok"
    /\ "observations" \notin DOMAIN structured_data
    /\ pc = "idle"

\* C7: a failure of the narrative service never aborts the run: the call
\* raises nothing, its error text is stored as report_generated and the run
\* goes on exactly as after a success; a run that reaches the end of the
\* script (every run but an audio run whose insert raised) has called
\* create_word_document on the error text. This holds in both tracks and on
\* the regenerate path.
NarrativeFailed == responses.narrative = "failed"

NarrativeSoftFailInv ==
    NarrativeFailed =>
        /\ \E d \in Details : report_generated = NarrativeError(d)
        /\ stage.report_assigned
        /\ \A d \in Details : Uncaught(d) \in st_errors => calls["insert"] = 1
        /\ (pc = "idle" /\ \A d \in Details : Uncaught(d) \notin st_errors) =>
             docx_input = report_generated

NarrativeSoftFailStep ==
    (calls'["narrative"] = calls["narrative"] + 1
     /\ responses'.narrative = "failed")
    =>
        /\ st_errors' = st_errors
        /\ \/ pc = "narrative" /\ pc' \in {"lookup", "insert"}
           \/ pc = "audio_narrative" /\ pc' = "audio_insert"
           \/ pc = "regenerate" /\ pc' = "display"

NarrativeSoftFail == []NarrativeSoftFailInv /\ [][NarrativeSoftFailStep]_vars

ErrorTextRendered ==
    /\ NarrativeFailed
    /\ pc = "idle"
    /\ calls["upload"] = 1
    /\ inserted # NoRow
    /\ \E d \in Details : docx_input = NarrativeError(d)

\* C8: once the transcription job has reached a terminal status while the
\* adapter is in its poll loop (and polls are left within MaxPolls), the
\* adapter eventually returns.
TerminalJobInLoop ==
    /\ pc \in {"poll", "wait"}
    /\ job_status \in Terminal
    /\ calls["poll"] < MaxPolls

Returned == exit # "none"

TerminalJobLeadsToReturn == TerminalJobInLoop ~> Returned

ReturnedAfterWaiting ==
    /\ exit \in Terminal
    /\ job_status \in Terminal
    /\ waits = 2

\* C9: the poll loop has no iteration cap: as long as every poll of the run
\* was answered 200 with a non-terminal status the adapter has not returned,
\* whatever the number of polls, and the timeout text is never returned.
NoIterationCap ==
    /\ exit # "timeout"
    /\ transcript # TimedOut
    /\ (calls["poll"] > 0 /\ responses.pending = calls["poll"]) =>
         /\ exit = "none"
         /\ pc \in {"wait", "poll"}

StillPollingAtBound ==
    /\ responses.pending = MaxPolls
    /\ calls["poll"] = MaxPolls
    /\ waits = MaxPolls
    /\ exit = "none"
    /\ pc = "poll"

\* C10: within one run every external call other than the status poll (OCR,
\* structuring, upload, transcript-create, narrative) is issued at most
\* once, also when it failed.
SingleAttempt ==
    \A k \in {"ocr", "groq", "upload", "create", "narrative"} : calls[k] <= 1

FailedCallNotRepeated ==
    /\ pc = "idle"
    /\ stage.recognition = "failed"
    /\ calls["ocr"] = 1

\* C11: on the audio track the structuring adapter is never called and the
\* narrative generator receives the text transcribe_with_assemblyai
\* returned, unchanged.
AudioFeedsNarrativeDirectly ==
    stage.run = "audio" =>
        /\ calls["ocr"] = 0
        /\ calls["groq"] = 0
        /\ structured_data = NoData
        /\ calls["narrative"] > 0 =>
             /\ exit # "none"
             /\ narrative_arg = transcript
             /\ narrative_arg = audio_transcription

BlankTranscriptPassedOn ==
    /\ stage.run = "audio"
    /\ exit = "completed"
    /\ calls["narrative"] = 1
    /\ narrative_arg = <<" ", "\n">>

\* C12: on the image track the narrative generator receives exactly the
\* observations string of the structured record, and recognition,
\* structuring and narrative generation run in this order, each at most
\* once per run.
ImageStagesInOrder ==
    stage.run = "ocr" =>
        /\ calls["ocr"] <= 1 /\ calls["groq"] <= 1 /\ calls["narrative"] <= 1
        /\ calls["groq"] > 0 =>
             (calls["ocr"] = 1 /\ stage.recognition = "ok")
        /\ calls["narrative"] > 0 =>
             /\ calls["groq"] = 1
             /\ stage.structuring = "ok"
             /\ "observations" \in DOMAIN structured_data
             /\ narrative_arg = structured_data.observations

ObservationsNotRawText ==
    /\ stage.run = "ocr"
    /\ calls["narrative"] = 1
    /\ extracted_text = Hello
    /\ narrative_arg = <<" ", "\n">>

\* C13: the "Student Name:" line of a report generated on the image track
\* is made of user_info.student_name alone, so two runs with the same
\* session metadata and different extracted names have the same header line.
HeaderNameLine(report) == Strip(SplitLines(report)[2])

HeaderNameFromMetadata ==
    (/\ stage.run = "ocr"
     /\ stage.report_assigned
     /\ responses.narrative = "ok")
    =>
        HeaderNameLine(report_generated) =
            <<"Student Name: ">> \o user_info.student_name

ExtractedNameDiffers ==
    /\ stage.run = "ocr"
    /\ stage.report_assigned
    /\ responses.narrative = "ok"
    /\ structured_data.studentName = <<"A", "n", "u">>
    /\ user_info.student_name = <<"R", "a", "v", "i">>

\* C14: the regenerate run calls the narrative generator only, with the
\* edited transcript, and assigns its result to report_generated; it issues
\* no recognition, structuring or persistence call and leaves
\* processing_mode and user_info (and the transcript) as they were.
RegenerateInv ==
    stage.run = "regenerate" =>
        /\ \A k \in CallKinds \ {"narrative"} : calls[k] = 0
        /\ inserted = NoRow
        /\ exit = "none"
        /\ calls["narrative"] <= 1
        /\ calls["narrative"] = 1 =>
             /\ narrative_arg = audio_transcription
             /\ stage.report_assigned
             /\ \/ \E d \in Details : report_generated = NarrativeError(d)
                \/ \E b \in Bodies : report_generated = complete_report(b, user_info)

RegenerateStep ==
    stage'.run = "regenerate" =>
        /\ processing_mode' = processing_mode
        /\ user_info' = user_info
        /\ audio_transcription' = audio_transcription
        /\ auth' = auth

RegenerateOnlyNarrative == []RegenerateInv /\ [][RegenerateStep]_vars

RegeneratedFromEdit ==
    /\ stage.run = "regenerate"
    /\ pc = "idle"
    /\ calls["narrative"] = 1
    /\ narrative_arg = <<" ", "\n">>
    /\ docx_input = report_generated

\* C15: a non-empty audio_transcription (the guard of the transcript editor)
\* implies processing_mode = "audio", and a run started by a mode button
\* leaves audio_transcription "" and report_generated None.
EditorOnlyOnAudio ==
    /\ Truthy(audio_transcription) => processing_mode = "audio"
    /\ stage.run \in {"toggle", "edit", "regenerate"} => processing_mode = "audio"
    /\ stage.run = "mode" =>
         (audio_transcription = <<>> /\ report_generated = None)

EditorOpen ==
    /\ Truthy(audio_transcription)
    /\ show_edit_transcript
    /\ stage.run = "toggle"
    /\ processing_mode = "audio"

\* C16: in either track an empty extracted text ends the run in failure: the
\* narrative generator is not called on it and nothing is persisted.
EmptyTextEndsRun ==
    /\ (stage.run = "ocr" /\ stage.recognition = "ok" /\ extracted_text = <<>>) =>
         (calls["narrative"] = 0 /\ calls["insert"] = 0)
    /\ (stage.run = "audio" /\ exit # "none" /\ transcript = <<>>) =>
         (calls["narrative"] = 0 /\ calls["insert"] = 0)

\* C17: nothing produced during one login is visible to a later login of
\* the same session: the script run that follows a login finds no
\* transcript, no report and no processing mode, and renders no report.
NoLeakAcrossLogins ==
    stage.run = "login" =>
        /\ ~Truthy(audio_transcription)
        /\ ~Truthy(report_generated)
        /\ processing_mode = "None"
        /\ docx_input = None

\* The lines the loop of create_word_document does not skip: the lines of
\* the text without its "**" markers, stripped, blank ones left out.
NotBlank(line) == line # <<>>
RECURSIVE StripAll(_)
StripAll(lines) ==
    IF lines = <<>> THEN <<>>
    ELSE <<Strip(Head(lines))>> \o StripAll(Tail(lines))
TextLines(text) == SelectSeq(StripAll(SplitLines(RemoveBold(text))), NotBlank)
InputLines(text) == SelectSeq(StripAll(SplitLines(text)), NotBlank)

Matches(rule, line) ==
    CASE rule = 1 -> StartsWithLabel(line)
      [] rule = 2 -> section_pattern(line)
      [] rule = 3 -> subheading_pattern(line).matched
      [] rule = 4 -> list_item_pattern(line).matched
      [] OTHER -> TRUE

FirstRule(line) ==
    CHOOSE r \in 1..5 : Matches(r, line) /\ \A q \in 1..(r - 1) : ~Matches(q, line)

\* The rules whose output has the shape of paragraph par.
RulesOf(par) ==
    { r \in 1..5 :
        CASE r = 1 -> par.style = "Normal" /\ Len(par.runs) = 1 /\ par.runs[1].bold
          [] r = 2 -> par.style = "Heading 1"
          [] r = 3 -> par.style = "Normal" /\ Len(par.runs) = 2
          [] r = 4 -> par.style = "List Bullet"
          [] OTHER -> par.style = "Normal" /\ Len(par.runs) = 1 /\ ~par.runs[1].bold }

FirstMatchingRule ==
    render_pc = "done" =>
        LET doc == docx_bytes.value
            ls == TextLines(render_input)
        IN \A i \in 1..Len(ls) :
              /\ i + 1 <= Len(doc)
              /\ RulesOf(doc[i + 1]) = {FirstRule(ls[i])}

LabelledBulletIsSubheading ==
    /\ render_pc = "done"
    /\ render_input = <<"*", " ", "a", ":", "*", " ", "b">>
    /\ list_item_pattern(render_input).matched
    /\ docx_bytes.value[2] =
           Paragraph("Normal", <<Run(<<"a", ":", " ">>, TRUE), Run(<<"b">>, FALSE)>>)

\* C18: no operation of the extractor writes a field of the extractor or a
\* module-level variable, and whatever the interleaving of two callers, each
\* call goes the way, and returns what, it does when it runs alone.
SameAsAlone(c) ==
    /\ callers[c].pc = alone[c].pc
    /\ callers[c].result.op = alone[c].result.op
    /\ callers[c].result.out = alone[c].result.out

CallersInv == \A c \in Callers : SameAsAlone(c)

NoSharedWrite == extractor' = extractor /\ assemblyai_key' = assemblyai_key

CallersIndependent == []CallersInv /\ [][NoSharedWrite]_vars

FinishedWhileOtherPolls ==
    /\ callers[1].pc = "done"
    /\ callers[1].result = Result("transcribe", Hello)
    /\ callers[2].pc = "wait"
    /\ cells[2] = "processing"
    /\ callers[2].polls = 2

\* A line "* <label>: <content>": star, space, label, colon, space, content.
LabelEnd(line) ==
    IF Len(line) >= 6 /\ line[1] = "*" /\ line[2] = " "
    THEN { k \in 4..(Len(line) - 2) :
             /\ line[k] = ":" /\ line[k + 1] = " "
             /\ \A j \in 3..(k - 1) : line[j] \notin {":", " ", "*"} }
    ELSE {}

\* C21: a line "* <label>: <content>" is rendered as one paragraph made of
\* a bold run "<label>: " and a non-bold run "<content>", not as a bullet.
LabelledLineBold ==
    render_pc = "done" =>
        LET doc == docx_bytes.value
            ls == TextLines(render_input)
        IN \A i \in 1..Len(ls) : \A k \in LabelEnd(ls[i]) :
              /\ i + 1 <= Len(doc)
              /\ doc[i + 1] =
                   Paragraph("Normal",
                             <<Run(SubSeq(ls[i], 3, k - 1) \o <<":", " ">>, TRUE),
                               Run(SubSeq(ls[i], k + 2, Len(ls[i])), FALSE)>>)

\* The style of each paragraph and the boldness of each of its runs.
BoldsOf(runs) == [j \in 1..Len(runs) |-> runs[j].bold]
Styling(doc) == [i \in 1..Len(doc) |-> <<doc[i].style, BoldsOf(doc[i].runs)>>]

WrapperLinesBold ==
    (render_pc = "done" /\ render_input \in Reports
        /\ render_input[1] # "Error generating report: ")
    =>
        LET doc == docx_bytes.value
            ls == TextLines(render_input)
            wrapper == { i \in 1..Len(ls) :
                           ls[i][1] \in {"Date: ", "Student Name: ",
                                         "Observer Name: ", "Session Duration: ",
                                         "Name of Observer: "} }
        IN /\ Cardinality(wrapper) = 5
           /\ \A i \in wrapper :
                doc[i + 1] = Paragraph("Normal", <<Run(ls[i], TRUE)>>)

IndentedHeaderBold ==
    /\ render_pc = "done"
    /\ render_input \in Reports
    /\ render_input[1] = "Date: "
    /\ SplitLines(render_input)[2][1] = " "
    /\ docx_bytes.value[3] =
           Paragraph("Normal", <<Run(<<"Student Name: ", "R", "a", "v", "i">>, TRUE)>>)

\* C23: extract_text_with_ocr returns the parsed text exactly when the
\* request succeeded, there is a parsed result, the first one has no error
\* message and its text is not blank; in the four other cases it raises,
\* the detail is shown, nothing follows in the run, and the OCR call is not
\* repeated.
OcrResponseGood(resp) ==
    /\ resp.http_error = None
    /\ Len(resp.ParsedResults) >= 1
    /\ resp.ParsedResults[1].ErrorMessage \in {None, <<>>}
    /\ Strip(resp.ParsedResults[1].ParsedText) # <<>>

OcrDetail(resp) ==
    IF resp.http_error # None THEN resp.http_error
    ELSE IF Len(resp.ParsedResults) = 0
    THEN <<"OCR Error: ">> \o (IF resp.ErrorMessage # None THEN resp.ErrorMessage
                               ELSE <<"No parsed results returned">>)
    ELSE IF resp.ParsedResults[1].ErrorMessage \notin {None, <<>>}
    THEN <<"OCR Error: ">> \o resp.ParsedResults[1].ErrorMessage
    ELSE <<"No text was detected in the image">>

OcrFourFailures ==
    (stage.run = "ocr" /\ calls["ocr"] > 0) =>
        /\ calls["ocr"] = 1
        /\ IF OcrResponseGood(responses.ocr)
           THEN /\ stage.recognition = "ok"
                /\ extracted_text = responses.ocr.ParsedResults[1].ParsedText
           ELSE /\ stage.recognition = "failed"
                /\ extracted_text = None
                /\ (<<"OCR Error: ">> \o OcrDetail(responses.ocr)) \in st_errors
                /\ calls["groq"] = 0
                /\ calls["narrative"] = 0
                /\ calls["insert"] = 0

BlankTextRejected ==
    /\ stage.run = "ocr"
    /\ calls["ocr"] = 1
    /\ responses.ocr.http_error = None
    /\ Len(responses.ocr.ParsedResults) = 1
    /\ responses.ocr.ParsedResults[1].ErrorMessage = None
    /\ responses.ocr.ParsedResults[1].ParsedText = <<" ", "\n">>
    /\ stage.recognition = "failed"
    /\ pc = "idle"

\* C26: a status poll answered with a status other than 200 ends the
\* adapter at once with the error text that carries the response body, and
\* no further poll is issued, whatever the status of the job.
PollRejectedInv ==
    (calls["poll"] > 0 /\ responses.poll_code \notin {0, 200}) =>
        /\ exit = "poll"
        /\ transcript =
             <<"Error checking transcription status: ">> \o responses.poll_text
        /\ pc \notin {"poll", "wait"}

PollRejectedStep ==
    (calls["poll"] > 0 /\ responses.poll_code \notin {0, 200}) =>
        calls'["poll"] <= calls["poll"]

PollRejectedEndsAdapter == []PollRejectedInv /\ [][PollRejectedStep]_vars

PollRejectedWhileProcessing ==
    /\ exit = "poll"
    /\ responses.poll_code = 500
    /\ job_status = "processing"
    /\ calls["poll"] = 2
    /\ waits = 1

\* C27: after a processing run of the image track that fails before a
\* report is assigned (recognition error, structuring error, no
\* observations), report_generated holds no report of an earlier run and
\* none is rendered.
NoStaleReport ==
    (/\ stage.run = "ocr"
     /\ calls["ocr"] > 0
     /\ pc \in {"display", "idle"}
     /\ ~stage.report_assigned)
    =>
        /\ ~Truthy(report_generated)
        /\ docx_input = None

\* C29: between an observer's login and the matching logout exactly one
\* 'login' row is inserted into observer_activity_logs.
LoggedOncePerLogin ==
    (auth.logged_in /\ auth.role = "Observer") => login_logs = 1

\* C30: an adapter is invoked or an observation inserted only while a user
\* is logged in whose role is neither Admin nor Parent; after logout
\* nothing of the pipeline runs until the next login.
PipelineActive ==
    \/ pc # "idle"
    \/ \E k \in CallKinds : calls[k] > 0
    \/ inserted # NoRow

AuthInv ==
    PipelineActive => (auth.logged_in /\ auth.role \notin {"Admin", "Parent"})

AuthStep ==
    (\E k \in CallKinds : calls'[k] > calls[k]) =>
        /\ auth.logged_in /\ auth.role \notin {"Admin", "Parent"}
        /\ auth' = auth

PipelineNeedsObserver == []AuthInv /\ [][AuthStep]_vars

ObserverInserted ==
    /\ auth.logged_in
    /\ auth.role = "Observer"
    /\ stage.run = "ocr"
    /\ calls["insert"] = 1
    /\ inserted # NoRow

UniqueEmails ==
    \A i, j \in 1..Len(users) : users[i].email = users[j].email => i = j

\* C31: send_email always returns a (success, message) pair and never
\* raises: when connecting, the TLS start, the login or the sending failed
\* it returns (False, message), and server.quit() is reached only with a
\* connection that was opened.
SendEmailNeverRaises ==
    send_pc = "returned" =>
        /\ ~send_outcome.raised
        /\ Len(send_outcome.value) = 2
        /\ send_outcome.value[1] \in BOOLEAN
        /\ (send_pending # Return(<<TRUE, <<"Email sent to ">> \o send_args.recipient_email>>)
               => send_outcome.value[1] = FALSE)
        /\ server # "unbound"

====
